---- MODULE Spec2Model ----
(***************************************************************************)
(* A model of gitui's top-level controller (src/src/app.rs) and of its     *)
(* commit-log tab (src/src/tabs/revlog/mod.rs).                            *)
(*                                                                         *)
(* The UI thread is single threaded: App::event, App::update_git and       *)
(* App::draw never overlap.  pc is the position of the UI thread inside    *)
(* App::event: "idle" (not inside), "drain" (inside the loop of            *)
(* process_queue), "done" (about to return).  The log walk of AsyncLog     *)
(* runs on a worker thread and interleaves with every position.            *)
(***************************************************************************)
EXTENDS Integers, Sequences, FiniteSets, TLC

(* ------------------------------ bounds --------------------------------- *)
(* Spec drives the whole App; SpecPairs drives it on a repository without  *)
(* commits, with handlers that push two events for one input; SpecRevlog   *)
(* drives the Revlog alone, through its Component interface.               *)

\* Spec: commits the repository's history holds
MaxCommits == 1
\* Spec: largest width and height of the area handed to App::draw
MaxArea == 4
\* Spec: longest run of moves that each come within the repeated-scroll threshold
MaxRapid == 0
\* Spec: events one component handler pushes to the queue for one input, at most
MaxEnqueue == 1
\* SpecPairs: events one component handler pushes for one input, at most
PairEnqueue == 2
\* SpecRevlog: commits the history holds at most, the largest area, and the
\* longest run of moves within the threshold, wide enough for every scroll speed
RevlogMaxCommits == 2
RevlogMaxArea == 4
RevlogMaxRapid == 97
\* a history long enough for a step of 10 rows to be told from a clamped one
ScrollCommits == 12
\* a history longer than one window of SLICE_SIZE commits
WindowCommits == 1300
\* SpecFifo: events a component pushes while the drain calls it, at most, and
\* the turns of one drain in which one does
FifoEnqueue == 1
FifoMaxDrain == 2
\* SpecStash: stashes the repository holds at most
MaxStashes == 2
\* SpecInput: characters of the longest text set_text is given, and bytes of
\* the longest text typing builds
MaxText == 3
MaxTyped == 4

(* -------------------------- program constants -------------------------- *)

SLICE_SIZE == 1200
\* scroll speeds are f32 in the source; here fixed point, 1.0 = SPEED_ONE
SCROLL_SPEED_START == 100000
SCROLL_SPEED_MAX == 10000000
SCROLL_SPEED_MULTIPLIER_NUM == 105
SCROLL_SPEED_MULTIPLIER_DEN == 100
SPEED_ONE == 10 * SCROLL_SPEED_START
\* ItemBatch's reload margin (utils.rs is not part of the sources)
SLICE_OFFSET_RELOAD_THRESHOLD == 100

(* ------------------------------ helpers -------------------------------- *)

Min(a, b) == IF a < b THEN a ELSE b

Max(a, b) == IF a > b THEN a ELSE b

\* usize::saturating_sub
SatSub(a, b) == IF a > b THEN a - b ELSE 0

(* --------------------------- NeedsUpdate ------------------------------- *)

\* the three dirty bits; a NeedsUpdate value is a subset of them
NeedsUpdateBits == {"ALL", "DIFF", "COMMANDS"}

NeedsUpdate == SUBSET NeedsUpdateBits

(* ----------------------------- components ------------------------------ *)

\* mutation of Components: the tabs are listed before the popups
ComponentsTabsFirst == <<"revlog", "status_tab", "stashing_tab", "msg", "reset", "commit", "help">>

\* accessors!(self, [msg, reset, commit, help, revlog, status_tab, stashing_tab])
Components == <<"msg", "reset", "commit", "help", "revlog", "status_tab", "stashing_tab">>

ComponentSet == {Components[i] : i \in 1..Len(Components)}

\* App::get_tabs, in index order 0, 1, 2
Tabs == <<"status_tab", "revlog", "stashing_tab">>

Popups == {"commit", "help", "reset", "msg"}

(* ------------------------------ events --------------------------------- *)

MoveKeys == {"MOVE_UP", "MOVE_DOWN", "SHIFT_UP", "HOME", "SHIFT_DOWN", "END", "PAGE_UP", "PAGE_DOWN"}

Keys == MoveKeys \cup {"EXIT", "TAB_TOGGLE", "OTHER_KEY"}

\* crossterm events: keys and the events that are no keys
InputEvents == Keys \cup {"RESIZE"}

Paths == {"f"}

\* InternalEvent, one record shape for all variants
IEvent(t, path, folder, u) == [type |-> t, path |-> path, is_folder |-> folder, u |-> u]

NoPath == "-"

\* the payloads the model draws from: a reset of a path as file or as folder,
\* the variants without payload, and Update with DIFF or with ALL
InternalEvents ==
    {IEvent("ResetItem", p, b, {}) : p \in Paths, b \in BOOLEAN}
    \cup {IEvent("ConfirmResetItem", p, FALSE, {}) : p \in Paths}
    \cup {IEvent(t, NoPath, FALSE, {}) : t \in {"AddHunk", "ShowMsg", "OpenCommit"}}
    \cup {IEvent("Update", NoPath, FALSE, {b}) : b \in {"DIFF", "ALL"}}

\* the sequences of at most n elements of S
RECURSIVE SeqsUpTo(_, _)
SeqsUpTo(S, n) ==
    IF n = 0 THEN {<<>>}
    ELSE LET shorter == SeqsUpTo(S, n - 1)
         IN  shorter \cup {Append(q, e) : q \in {x \in shorter : Len(x) = n - 1}, e \in S}

VARIABLES
    do_quit, tab, visible, queue, current_commands, help_cmds,
    pc, flags, ran, offered, drain_start, crashed,
    workdir,
    selection, selection_max, items, first_open_done, scroll_speed, current_size,
    count, pending, chan, total,
    msg, cursor_position, input_visible, txt,
    untracked, stash_list, res

appVars == <<do_quit, tab, visible, queue, current_commands, help_cmds>>

cycleVars == <<pc, flags, ran, offered, drain_start>>

repoVars == <<workdir>>

revlogVars == <<selection, selection_max, items, first_open_done, scroll_speed, current_size>>

logVars == <<count, pending, chan, total>>

\* TextInputComponent: msg, cursor_position and visible, and the Vec<Text>
\* that draw has built, which lives until the component is called again
inputVars == <<msg, cursor_position, input_visible, txt>>

\* the repository of sync::stash: the untracked files of its working tree,
\* its stash messages, newest first, and what the last call returned
stashVars == <<untracked, stash_list, res>>

\* the App, its Revlog and the log engine
coreVars == <<appVars, cycleVars, crashed, repoVars, revlogVars, logVars>>

vars == <<coreVars, inputVars, stashVars>>

(* ------------------------------ AsyncLog ------------------------------- *)
(* asyncgit's AsyncLog is not part of the sources; it is modelled from the *)
(* specification's section 4.1: count is the number of commit ids the walk *)
(* has discovered, pending is true while the walk is in flight, and every  *)
(* progress of the walk sends one Log notification (chan counts the ones   *)
(* not yet handled).  Commit ids are the log indices 0, 1, ...             *)

\* AsyncLog::get_slice: what is discovered of [start, start + size)
get_slice(start, size) ==
    [i \in 1..SatSub(Min(count, start + size), start) |-> start + (i - 1)]

\* AsyncLog::fetch: starts the walk unless one is in flight
AsyncLogFetch ==
    IF pending
    THEN UNCHANGED logVars
    ELSE count' = 0 /\ pending' = TRUE /\ UNCHANGED <<chan, total>>

\* the worker discovers one more commit and notifies
WalkStep ==
    /\ pending
    /\ crashed = "" /\ ~do_quit
    /\ count < total
    /\ count' = count + 1
    /\ chan' = chan + 1
    /\ UNCHANGED <<pending, total>>
    /\ UNCHANGED <<appVars, cycleVars, crashed, repoVars, revlogVars>>
    /\ UNCHANGED <<inputVars, stashVars>>

\* the worker has walked the whole history: it notifies and ends
WalkFinish ==
    /\ pending
    /\ crashed = "" /\ ~do_quit
    /\ count = total
    /\ pending' = FALSE
    /\ chan' = chan + 1
    /\ UNCHANGED <<count, total>>
    /\ UNCHANGED <<appVars, cycleVars, crashed, repoVars, revlogVars>>
    /\ UNCHANGED <<inputVars, stashVars>>

(* ------------------------------ ItemBatch ------------------------------ *)
(* utils.rs is not part of the sources; modelled from the specification's  *)
(* sections 3 and 4.2.                                                     *)

EmptyBatch == [index_offset |-> 0, items |-> <<>>]

set_items(start_index, commits) == [index_offset |-> start_index, items |-> commits]

needs_data(b, idx, idx_max) ==
    LET want_min == SatSub(idx, SLICE_OFFSET_RELOAD_THRESHOLD)
        want_max == Min(idx + SLICE_OFFSET_RELOAD_THRESHOLD, idx_max)
    IN  \/ want_min < b.index_offset
        \/ want_max >= b.index_offset + Len(b.items)

(* ------------------------------- Revlog -------------------------------- *)

\* mutation of fetch_commits: the window starts at the selection
fetch_commits_uncentered(b, sel, infoOk) ==
    IF infoOk THEN set_items(sel, get_slice(sel, SLICE_SIZE)) ELSE b

\* mutation of fetch_commits: the slice is appended to the cached batch
fetch_commits_patching(b, sel, infoOk) ==
    LET want_min == SatSub(sel, SLICE_SIZE \div 2)
    IN  IF infoOk
        THEN set_items(b.index_offset, b.items \o get_slice(want_min, SLICE_SIZE))
        ELSE b

\* mutation of fetch_commits: one commit is asked for
fetch_commits_one_row(b, sel, infoOk) ==
    LET want_min == SatSub(sel, SLICE_SIZE \div 2)
    IN  IF infoOk THEN set_items(want_min, get_slice(want_min, 1)) ELSE b

\* mutation of fetch_commits: a failed lookup empties the cached batch
fetch_commits_clearing(b, sel, infoOk) ==
    LET want_min == SatSub(sel, SLICE_SIZE \div 2)
    IN  IF infoOk THEN set_items(want_min, get_slice(want_min, SLICE_SIZE)) ELSE EmptyBatch

\* Revlog::fetch_commits; infoOk: whether sync::get_commits_info returned Ok
fetch_commits(b, sel, infoOk) ==
    LET want_min == SatSub(sel, SLICE_SIZE \div 2)
    IN  IF infoOk THEN set_items(want_min, get_slice(want_min, SLICE_SIZE)) ELSE b

\* mutation of UpdatedSelectionMax: the count of the walk is not read
UpdatedSelectionMaxStale == selection_max

\* Revlog::update, the new selection_max
UpdatedSelectionMax == SatSub(count, 1)

\* Revlog::update, the new batch for selection sel
UpdatedItems(b, sel, infoOk) ==
    IF needs_data(b, sel, UpdatedSelectionMax) THEN fetch_commits(b, sel, infoOk) ELSE b

\* Revlog::update_scroll_speed; rapid: the previous move is less than
\* REPEATED_SCROLL_THRESHOLD_MILLIS ago
update_scroll_speed(speed, rapid) ==
    LET s == IF rapid
             THEN (speed * SCROLL_SPEED_MULTIPLIER_NUM) \div SCROLL_SPEED_MULTIPLIER_DEN
             ELSE SCROLL_SPEED_START
    IN  Min(s, SCROLL_SPEED_MAX)

\* the speed after a pause and then n moves within the threshold
RECURSIVE SpeedAfterRun(_)
SpeedAfterRun(n) ==
    IF n = 0 THEN SCROLL_SPEED_START ELSE update_scroll_speed(SpeedAfterRun(n - 1), TRUE)

\* a move within the threshold is drawn only while the run is shorter than the
\* bound that gives speedCap, or once the speed is at its maximum
RapidAllowed(speedCap) == scroll_speed < speedCap \/ scroll_speed = SCROLL_SPEED_MAX

\* mutation of speed_int: the floor of the speed, without the minimum of 1
speed_int_floor(speed) == speed \div SPEED_ONE

\* usize::try_from(speed as i64).unwrap().max(1)
speed_int(speed) == Max(speed \div SPEED_ONE, 1)

\* usize::from(self.current_size.1).saturating_sub(1)
page_offset == SatSub(current_size[2], 1)

\* mutation of MovedSelection: Up subtracts without saturating
MovedSelectionUnsaturated(scroll, sel, selmax, step) ==
    CASE scroll = "Up" -> sel - step
      [] scroll = "Down" -> sel + step
      [] scroll = "PageUp" -> SatSub(sel, page_offset)
      [] scroll = "PageDown" -> sel + page_offset
      [] scroll = "Home" -> 0
      [] scroll = "End" -> selmax

\* the match of Revlog::move_selection, before the clamp
MovedSelection(scroll, sel, selmax, step) ==
    CASE scroll = "Up" -> SatSub(sel, step)
      [] scroll = "Down" -> sel + step
      [] scroll = "PageUp" -> SatSub(sel, page_offset)
      [] scroll = "PageDown" -> sel + page_offset
      [] scroll = "Home" -> 0
      [] scroll = "End" -> selmax

\* mutation of ClampSelection: the clamp is missing
ClampSelectionMissing(sel, selmax) == sel

\* self.selection = cmp::min(self.selection, self.selection_max)
ClampSelection(sel, selmax) == Min(sel, selmax)

ScrollTypes == {"Up", "Down", "PageUp", "PageDown", "Home", "End"}

\* the key match of Revlog::event
ScrollOf(ev) ==
    CASE ev = "MOVE_UP" -> "Up"
      [] ev = "MOVE_DOWN" -> "Down"
      [] ev \in {"SHIFT_UP", "HOME"} -> "Home"
      [] ev \in {"SHIFT_DOWN", "END"} -> "End"
      [] ev = "PAGE_UP" -> "PageUp"
      [] ev = "PAGE_DOWN" -> "PageDown"

\* Revlog::update
RevlogUpdate(infoOk) ==
    /\ selection_max' = UpdatedSelectionMax
    /\ items' = UpdatedItems(items, selection, infoOk)
    /\ UNCHANGED <<selection, first_open_done, scroll_speed, current_size>>

\* Revlog::move_selection
move_selection(scroll, rapid, infoOk) ==
    /\ scroll_speed' = update_scroll_speed(scroll_speed, rapid)
    /\ selection' =
         ClampSelection(
             MovedSelection(scroll, selection, selection_max, speed_int(scroll_speed')),
             selection_max)
    /\ selection_max' = UpdatedSelectionMax
    /\ items' = UpdatedItems(items, selection', infoOk)
    /\ UNCHANGED <<first_open_done, current_size>>

\* Revlog::relative_selection
relative_selection(b, sel) == SatSub(sel, b.index_offset)

\* mutation of RevlogConsumes: the keys are matched whether visible or not
RevlogConsumesHidden(ev) == ev \in MoveKeys

\* Revlog::event returns true
RevlogConsumes(ev) == visible["revlog"] /\ ev \in MoveKeys

\* mutation of RevlogShowEffect: every show starts the walk
RevlogShowEffectEveryShow ==
    /\ first_open_done' = TRUE
    /\ count' = 0 /\ pending' = TRUE /\ UNCHANGED <<chan, total>>

\* Revlog::show, all but the visible flag
RevlogShowEffect ==
    IF ~first_open_done
    THEN /\ first_open_done' = TRUE
         /\ AsyncLogFetch
    ELSE UNCHANGED <<first_open_done, logVars>>


(* ----------------------------- commands -------------------------------- *)

CommandInfo(name, enabled, available, order) ==
    [name |-> name, enabled |-> enabled, available |-> available, order |-> order]

\* Component::commands of component c under visibility v: what it pushes.
\* Revlog's is in the sources; the other components' are not and follow it.
ComponentCommand(c, v, force_all) ==
    CommandInfo(c, v[c], v[c] \/ force_all, 0)

\* Component::commands of component c: whether it returns Blocking
ReturnsBlocking(c, v) == v[c]

\* App::any_popup_visible
any_popup_visible(v) == v["commit"] \/ v["help"] \/ v["reset"] \/ v["msg"]

\* mutation of CommandsGoOn: the loop breaks at a blocking component also
\* when force_all is set
CommandsGoOnUnforced(c, v, force_all) == ~ReturnsBlocking(c, v)

\* the loop of App::commands from component i on: whether it goes on after i
CommandsGoOn(c, v, force_all) == ~(ReturnsBlocking(c, v) /\ ~force_all)

RECURSIVE CommandsFrom(_, _, _)
CommandsFrom(i, v, force_all) ==
    IF i > Len(Components) THEN <<>>
    ELSE <<ComponentCommand(Components[i], v, force_all)>>
         \o (IF CommandsGoOn(Components[i], v, force_all)
             THEN CommandsFrom(i + 1, v, force_all)
             ELSE <<>>)

\* App::commands
commands(v, force_all) ==
    CommandsFrom(1, v, force_all)
    \o <<CommandInfo("TOGGLE_TABS", TRUE, ~any_popup_visible(v), 0),
         CommandInfo("QUIT", TRUE, ~any_popup_visible(v), 100)>>

\* Vec::sort_by_key(|e| e.order), a stable sort
RECURSIVE InsertByOrder(_, _)
InsertByOrder(s, e) ==
    IF s = <<>> THEN <<e>>
    ELSE IF s[Len(s)].order <= e.order THEN Append(s, e)
    ELSE Append(InsertByOrder(SubSeq(s, 1, Len(s) - 1), e), s[Len(s)])

RECURSIVE SortByOrder(_)
SortByOrder(s) ==
    IF s = <<>> THEN <<>>
    ELSE InsertByOrder(SortByOrder(SubSeq(s, 1, Len(s) - 1)), s[Len(s)])

\* App::update_commands under visibility v
update_commands(v) ==
    /\ help_cmds' = commands(v, TRUE)
    /\ current_commands' = SortByOrder(commands(v, FALSE))

(* --------------------------- the repository ---------------------------- *)
(* The sync functions are not part of the sources.  workdir holds the      *)
(* paths with an unstaged hunk; every call may fail (the specification's   *)
(* section 6), and staging a hunk can succeed only if the path has one.    *)

\* what Status::selected_path can return: None, or a path and is_stage
Selections ==
    {[some |-> FALSE, path |-> NoPath, is_stage |-> FALSE]}
    \cup {[some |-> TRUE, path |-> p, is_stage |-> b] : p \in Paths, b \in BOOLEAN}

\* a file is edited outside the program
ExternalEdit(p) ==
    /\ pc = "idle"
    /\ crashed = "" /\ ~do_quit
    /\ p \notin workdir
    /\ workdir' = workdir \cup {p}
    /\ UNCHANGED <<appVars, cycleVars, crashed, revlogVars, logVars>>
    /\ UNCHANGED <<inputVars, stashVars>>

(* ------------------- component handlers not in the sources ------------- *)
(* Of the seven components only Revlog is part of the sources.  The other  *)
(* handlers follow the specification's section 4.4: a visible popup        *)
(* intercepts every input and may close itself, the help popup may open on *)
(* a key of its own, a visible tab may take a key; a handler that took the *)
(* input may push events to the queue, at most maxEnq of them.             *)

MayConsume(c, ev) ==
    CASE c \in {"msg", "reset", "commit"} -> visible[c]
      [] c = "help" -> visible[c] \/ ev = "OTHER_KEY"
      [] OTHER -> visible[c] /\ ev \in Keys \ {"TAB_TOGGLE"}

MayDecline(c, ev) == c \in Popups => ~visible[c]

\* the visibility of c after it took an input
VisibleChoices(c) ==
    CASE c \in {"msg", "reset", "commit"} -> BOOLEAN
      [] c = "help" -> IF visible[c] THEN BOOLEAN ELSE {TRUE}
      [] OTHER -> {visible[c]}

EnqueueOf(c, maxEnq) ==
    IF c \in {"msg", "help"} THEN {<<>>} ELSE SeqsUpTo(InternalEvents, maxEnq)

(* ------------------------------- App ----------------------------------- *)

\* what is remembered of a cycle of App::event while it runs: the state the
\* drain of the queue starts from, the tab the cycle started on and the number
\* of the component that took the input (0: none)
Snapshot(v, w, n, t, k) ==
    [visible |-> v, workdir |-> w, queued |-> n, tab |-> t, consumer |-> k]

NoSnapshot == Snapshot(<<>>, {}, 0, 0, 0)

\* mutation of NewTab: the index is not reduced modulo the number of tabs
NewTabNoWrap(t) == t + 1

\* App::toggle_tabs, the new tab index
NewTab(t) == (t + 1) % Len(Tabs)

\* App::toggle_tabs (Revlog::show and Revlog::hide are in the sources, the
\* other tabs' show and hide set their visible flag)
toggle_tabs ==
    LET new_tab == NewTab(tab)
        shown(c) == \E i \in 1..Len(Tabs) : Tabs[i] = c /\ new_tab = i - 1
        isTab(c) == \E i \in 1..Len(Tabs) : Tabs[i] = c
    IN  /\ visible' = [c \in ComponentSet |-> IF isTab(c) THEN shown(c) ELSE visible[c]]
        /\ IF shown("revlog")
           THEN RevlogShowEffect
           ELSE UNCHANGED <<first_open_done, logVars>>
        /\ tab' = new_tab
        /\ UNCHANGED <<selection, selection_max, items, scroll_speed, current_size>>

\* event_pump: component c is offered the input and returns false
Declines(c, ev) == IF c = "revlog" THEN ~RevlogConsumes(ev) ELSE MayDecline(c, ev)

\* event_pump: component number k takes the input
ConsumedBy(k, ev, speedCap, maxEnq) ==
    LET c == Components[k]
    IN  /\ offered' = SubSeq(Components, 1, k)
        /\ flags' = {"COMMANDS"}
        /\ tab' = tab
        /\ UNCHANGED logVars
        /\ IF c = "revlog"
           THEN /\ RevlogConsumes(ev)
                /\ \E rapid \in BOOLEAN, infoOk \in BOOLEAN :
                      /\ rapid => RapidAllowed(speedCap)
                      /\ move_selection(ScrollOf(ev), rapid, infoOk)
                /\ UNCHANGED <<visible, queue>>
           ELSE /\ MayConsume(c, ev)
                /\ \E nv \in VisibleChoices(c), enq \in EnqueueOf(c, maxEnq) :
                      /\ visible' = [visible EXCEPT ![c] = nv]
                      /\ queue' = queue \o enq
                /\ UNCHANGED revlogVars

\* mutation of NotConsumed: the tab switch raises no flag
NotConsumedTabUnflagged(ev) ==
    /\ offered' = Components
    /\ queue' = queue
    /\ IF ev = "TAB_TOGGLE"
       THEN toggle_tabs /\ flags' = {}
       ELSE flags' = {} /\ UNCHANGED <<tab, visible, revlogVars, logVars>>

\* the else branch of App::event: no component took the input
NotConsumed(ev) ==
    /\ offered' = Components
    /\ queue' = queue
    /\ IF ev = "TAB_TOGGLE"
       THEN toggle_tabs /\ flags' = {"COMMANDS"}
       ELSE flags' = {} /\ UNCHANGED <<tab, visible, revlogVars, logVars>>

\* mutation of check_quit: a visible popup keeps the exit key
check_quit_behind_popups(ev) == ev = "EXIT" /\ ~any_popup_visible(visible)

\* App::check_quit returns true
check_quit(ev) == ev = "EXIT"

\* App::event up to the call of process_queue; on the exit key it returns
\* at once (App::check_quit)
AppEvent(ev, speedCap, maxEnq) ==
    /\ pc = "idle"
    /\ crashed = ""
    /\ UNCHANGED <<crashed, repoVars, current_commands, help_cmds>>
    /\ IF check_quit(ev)
       THEN /\ do_quit' = TRUE
            /\ UNCHANGED <<tab, visible, queue, cycleVars, revlogVars, logVars>>
       ELSE /\ do_quit' = do_quit
            /\ \E k \in 0..Len(Components) :
                  /\ \A j \in 1..(IF k = 0 THEN Len(Components) ELSE k - 1) :
                        Declines(Components[j], ev)
                  /\ IF k = 0 THEN NotConsumed(ev) ELSE ConsumedBy(k, ev, speedCap, maxEnq)
                  /\ drain_start' = Snapshot(visible', workdir, Len(queue'), tab, k)
            /\ pc' = "drain"
            /\ ran' = <<>>
    /\ UNCHANGED <<inputVars, stashVars>>

\* App::event as the embedding loop calls it, while is_quit() is false
Event(ev, speedCap, maxEnq) == ~do_quit /\ AppEvent(ev, speedCap, maxEnq)

\* the results the sync call of process_internal_event can have for event e,
\* with sel what Status::selected_path returns and w the working directory
Outcomes(e, sel, w) ==
    CASE e.type = "ResetItem" -> {"ok", "err"}
      [] e.type = "AddHunk" /\ ~sel.some -> {"none"}
      [] e.type = "AddHunk" /\ sel.some /\ sel.is_stage -> {"true", "false", "err"}
      [] e.type = "AddHunk" /\ sel.some /\ ~sel.is_stage ->
            {"err"} \cup (IF sel.path \in w THEN {"ok"} ELSE {})
      [] OTHER -> {"none"}

\* App::process_internal_event, the flags it returns
process_internal_event(e, oc) ==
    CASE e.type = "ResetItem" -> IF oc = "ok" THEN {"ALL"} ELSE {}
      [] e.type = "ConfirmResetItem" -> {"COMMANDS"}
      [] e.type = "AddHunk" -> IF oc \in {"ok", "true"} THEN {"ALL"} ELSE {}
      [] e.type = "ShowMsg" -> {"ALL"}
      [] e.type = "Update" -> e.u
      [] e.type = "OpenCommit" -> {}

\* App::process_internal_event: sync::unstage_hunk(..).unwrap() panics on Err
Panics(e, sel, oc) == e.type = "AddHunk" /\ sel.some /\ sel.is_stage /\ oc = "err"

\* mutation of PopupsAfter: the popups open only after the drain
PopupsDeferred(e, v) == v

\* App::process_internal_event, what it does to the popups
PopupsAfter(e, v) ==
    CASE e.type = "ConfirmResetItem" -> [v EXCEPT !["reset"] = TRUE]
      [] e.type = "ShowMsg" -> [v EXCEPT !["msg"] = TRUE]
      [] e.type = "OpenCommit" -> [v EXCEPT !["commit"] = TRUE]
      [] OTHER -> v

\* what a sync call that succeeded does to the working directory
WorkdirAfter(e, sel, oc, w) ==
    CASE e.type = "ResetItem" /\ oc = "ok" -> w \ {e.path}
      [] e.type = "AddHunk" /\ oc = "ok" -> w \ {sel.path}
      [] e.type = "AddHunk" /\ oc = "true" -> w \cup {sel.path}
      [] OTHER -> w

\* mutation of pop_front: the newest event is taken
pop_back(q) == [e |-> q[Len(q)], rest |-> SubSeq(q, 1, Len(q) - 1)]

\* VecDeque::pop_front on a queue that is not empty
pop_front(q) == [e |-> Head(q), rest |-> Tail(q)]

\* what the component that process_internal_event calls for e pushes to the
\* queue meanwhile: reset, commit and status_tab hold a handle of the queue;
\* at most maxEnq events, and none once the drain has made maxDrain turns
DrainEnqueueOf(e, maxEnq, maxDrain) ==
    IF e.type \in {"ConfirmResetItem", "OpenCommit", "AddHunk"} /\ Len(ran) < maxDrain
    THEN SeqsUpTo(InternalEvents, maxEnq)
    ELSE {<<>>}

\* one turn of the loop of App::process_queue: pop_front gave Some(e)
DrainStepWith(maxEnq, maxDrain) ==
    /\ pc = "drain"
    /\ crashed = ""
    /\ queue # <<>>
    /\ LET e == pop_front(queue).e
       IN  \E sel \in Selections : \E oc \in Outcomes(e, sel, workdir) :
           \E enq \in DrainEnqueueOf(e, maxEnq, maxDrain) :
              /\ queue' = pop_front(queue).rest \o enq
              /\ IF Panics(e, sel, oc)
                 THEN /\ crashed' = "unwrap"
                      /\ UNCHANGED <<flags, ran, visible, workdir>>
                 ELSE /\ crashed' = crashed
                      /\ flags' = flags \cup process_internal_event(e, oc)
                      /\ ran' = Append(ran, "process")
                      /\ visible' = PopupsAfter(e, visible)
                      /\ workdir' = WorkdirAfter(e, sel, oc, workdir)
    /\ UNCHANGED <<do_quit, tab, current_commands, help_cmds, pc, offered, drain_start,
                   revlogVars, logVars>>
    /\ UNCHANGED <<inputVars, stashVars>>

\* the turn when the called components push nothing
DrainStep == DrainStepWith(0, 0)

\* mutation of DrainDone: the loop ends after any number of turns
DrainDoneEarly == TRUE

\* the loop of App::process_queue ends when pop_front gives None
DrainDone == queue = <<>>

\* mutation of Refreshes: ALL counts as every bit
RefreshesAllIsEveryBit(fl) ==
    (IF "ALL" \in fl THEN <<"update">> ELSE <<>>)
    \o (IF "DIFF" \in fl \/ "ALL" \in fl THEN <<"update_diff">> ELSE <<>>)
    \o (IF "COMMANDS" \in fl \/ "ALL" \in fl THEN <<"update_commands">> ELSE <<>>)

\* the refreshes of App::event for the accumulated flags, in call order
Refreshes(fl) ==
    (IF "ALL" \in fl THEN <<"update">> ELSE <<>>)
    \o (IF "DIFF" \in fl THEN <<"update_diff">> ELSE <<>>)
    \o (IF "COMMANDS" \in fl THEN <<"update_commands">> ELSE <<>>)

\* mutation of AppUpdate: the Revlog is updated with the other tabs
AppUpdateWithRevlog == \E infoOk \in BOOLEAN : RevlogUpdate(infoOk)

\* App::update: status_tab.update() and stashing_tab.update(), whose state is
\* not part of this model; the Revlog is not among them
AppUpdate == UNCHANGED revlogVars

\* the end of App::process_queue and the rest of App::event
FinishCycle ==
    /\ pc = "drain"
    /\ crashed = ""
    /\ DrainDone
    /\ queue' = <<>>
    /\ ran' = ran \o <<"clear">> \o Refreshes(flags)
    /\ IF "update" \in {Refreshes(flags)[i] : i \in 1..Len(Refreshes(flags))}
       THEN AppUpdate
       ELSE UNCHANGED revlogVars
    /\ IF "update_commands" \in {Refreshes(flags)[i] : i \in 1..Len(Refreshes(flags))}
       THEN update_commands(visible)
       ELSE UNCHANGED <<current_commands, help_cmds>>
    /\ pc' = "done"
    /\ UNCHANGED <<do_quit, tab, visible, flags, offered, drain_start, crashed,
                   workdir, logVars>>
    /\ UNCHANGED <<inputVars, stashVars>>

\* App::event returns; its locals are gone
Return ==
    /\ pc = "done"
    /\ crashed = ""
    /\ pc' = "idle"
    /\ flags' = {}
    /\ ran' = <<>>
    /\ offered' = <<>>
    /\ drain_start' = NoSnapshot
    /\ UNCHANGED <<appVars, crashed, repoVars, revlogVars, logVars>>
    /\ UNCHANGED <<inputVars, stashVars>>

Notifications == {"Diff", "Log", "Status"}

\* App::update_git.  A Log notification is one the walk has sent; Diff and
\* Status come from the status tab's jobs, which are not part of the sources.
AppUpdateGit(ev) ==
    /\ pc = "idle"
    /\ crashed = ""
    /\ ev = "Log" => chan > 0
    /\ chan' = IF ev = "Log" THEN chan - 1 ELSE chan
    /\ IF ev = "Log"
       THEN \E infoOk \in BOOLEAN : RevlogUpdate(infoOk)
       ELSE UNCHANGED revlogVars
    /\ IF ev = "Status"
       THEN update_commands(visible)
       ELSE UNCHANGED <<current_commands, help_cmds>>
    /\ UNCHANGED <<do_quit, tab, visible, queue, cycleVars, crashed, workdir,
                   count, pending, total>>
    /\ UNCHANGED <<inputVars, stashVars>>

\* App::update_git as the embedding loop calls it, while is_quit() is false
UpdateGit(ev) == ~do_quit /\ AppUpdateGit(ev)

\* TextInputComponent::new
InitInput ==
    /\ msg = <<>>
    /\ cursor_position = 0
    /\ input_visible = FALSE
    /\ txt = <<>>

\* the repository repo_init hands to the tests of sync::stash
InitStash ==
    /\ untracked = {}
    /\ stash_list = <<>>
    /\ res = [call |-> "none", ok |-> TRUE, list |-> <<>>]

\* the areas a draw is handed: none, and the largest
AreaSizes(maxArea) == {<<0, 0>>, <<maxArea, maxArea>>}

\* App::draw: the match on self.tab, and Revlog::draw's current_size
Draw(area) ==
    /\ pc = "idle"
    /\ crashed = "" /\ ~do_quit
    /\ IF tab \in {0, 2}
       THEN UNCHANGED <<current_size, crashed>>
       ELSE IF tab = 1
       THEN /\ current_size' = <<SatSub(area[1], 2), SatSub(area[2], 2)>>
            /\ UNCHANGED crashed
       ELSE /\ crashed' = "unknown tab"
            /\ UNCHANGED current_size
    /\ UNCHANGED <<appVars, cycleVars, repoVars, logVars>>
    /\ UNCHANGED <<selection, selection_max, items, first_open_done, scroll_speed>>
    /\ UNCHANGED <<inputVars, stashVars>>

\* App::new and Revlog::new; the repository is in any state, its history
\* holds one of Commits commits
InitWith(Commits) ==
    /\ do_quit = FALSE
    /\ tab = 0
    /\ visible = [c \in ComponentSet |-> c = "status_tab"]
    /\ queue = <<>>
    /\ current_commands = <<>>
    /\ help_cmds = <<>>
    /\ pc = "idle"
    /\ flags = {}
    /\ ran = <<>>
    /\ offered = <<>>
    /\ drain_start = NoSnapshot
    /\ crashed = ""
    /\ workdir \in SUBSET Paths
    /\ selection = 0
    /\ selection_max = 0
    /\ items = EmptyBatch
    /\ first_open_done = FALSE
    /\ scroll_speed = 0
    /\ current_size = <<0, 0>>
    /\ count = 0
    /\ pending = FALSE
    /\ chan = 0
    /\ total \in Commits
    /\ InitInput /\ InitStash

Init == InitWith({MaxCommits})

\* the inputs Spec and SpecPairs draw: the keys App::event tells apart, the
\* two single-step moves, a key that is none of these and an event that is no
\* key; SpecRevlog draws every move key
AppInputs == {"EXIT", "TAB_TOGGLE", "MOVE_UP", "MOVE_DOWN", "OTHER_KEY", "RESIZE"}

SpeedCap == SpeedAfterRun(MaxRapid)

\* what the embedding loop does with the App while is_quit() is false (the
\* guard ~do_quit of the actions), and what goes on beside it
Next ==
    \/ \E ev \in AppInputs : Event(ev, SpeedCap, MaxEnqueue)
    \/ DrainStep
    \/ FinishCycle
    \/ Return
    \/ \E ev \in Notifications : UpdateGit(ev)
    \/ \E area \in AreaSizes(MaxArea) : Draw(area)
    \/ \E p \in Paths : ExternalEdit(p)
    \/ WalkStep
    \/ WalkFinish

Spec == Init /\ [][Next]_vars

InitPairs == InitWith({0})

\* the same loop on a repository without commits: the walk has nothing to
\* discover and only ends
NextPairs ==
    \/ \E ev \in AppInputs : Event(ev, SpeedCap, PairEnqueue)
    \/ DrainStep
    \/ FinishCycle
    \/ Return
    \/ \E ev \in Notifications : UpdateGit(ev)
    \/ \E area \in AreaSizes(MaxArea) : Draw(area)
    \/ \E p \in Paths : ExternalEdit(p)
    \/ WalkFinish

SpecPairs == InitPairs /\ [][NextPairs]_vars

(* the input cycle alone, with components that push to the queue also while *)
(* the drain calls them                                                     *)
FifoInputs == {"EXIT", "TAB_TOGGLE", "OTHER_KEY"}

NextFifo ==
    \/ \E ev \in FifoInputs : Event(ev, SpeedCap, PairEnqueue)
    \/ DrainStepWith(FifoEnqueue, FifoMaxDrain)
    \/ FinishCycle
    \/ Return

SpecFifo == InitPairs /\ [][NextFifo]_vars

\* App::event and App::update_git called whether or not is_quit() is true:
\* the App does not refuse a call after the exit key
NextQuit ==
    \/ \E ev \in FifoInputs : AppEvent(ev, SpeedCap, MaxEnqueue)
    \/ DrainStep
    \/ FinishCycle
    \/ Return
    \/ \E ev \in Notifications : AppUpdateGit(ev)
    \/ WalkStep
    \/ WalkFinish

SpecQuit == Init /\ [][NextQuit]_vars

(* ------------------- the Revlog alone, as a Component ------------------ *)

\* Component::show
RevlogShow ==
    /\ crashed = ""
    /\ visible' = [visible EXCEPT !["revlog"] = TRUE]
    /\ RevlogShowEffect
    /\ UNCHANGED <<selection, selection_max, items, scroll_speed, current_size>>
    /\ UNCHANGED <<do_quit, tab, queue, current_commands, help_cmds, cycleVars, crashed, repoVars>>
    /\ UNCHANGED <<inputVars, stashVars>>

\* Component::hide
RevlogHide ==
    /\ crashed = ""
    /\ visible' = [visible EXCEPT !["revlog"] = FALSE]
    /\ UNCHANGED <<do_quit, tab, queue, current_commands, help_cmds>>
    /\ UNCHANGED <<cycleVars, crashed, repoVars, revlogVars, logVars>>
    /\ UNCHANGED <<inputVars, stashVars>>

\* Component::event
RevlogEvent(ev, speedCap) ==
    /\ crashed = ""
    /\ IF RevlogConsumes(ev)
       THEN \E rapid \in BOOLEAN, infoOk \in BOOLEAN :
               /\ rapid => RapidAllowed(speedCap)
               /\ move_selection(ScrollOf(ev), rapid, infoOk)
       ELSE UNCHANGED revlogVars
    /\ UNCHANGED <<appVars, cycleVars, crashed, repoVars, logVars>>
    /\ UNCHANGED <<inputVars, stashVars>>

\* Revlog::update, as App::update_git calls it on a Log notification
RevlogNotified ==
    /\ crashed = ""
    /\ chan > 0
    /\ chan' = chan - 1
    /\ \E infoOk \in BOOLEAN : RevlogUpdate(infoOk)
    /\ UNCHANGED <<count, pending, total>>
    /\ UNCHANGED <<appVars, cycleVars, crashed, repoVars>>
    /\ UNCHANGED <<inputVars, stashVars>>

\* DrawableComponent::draw
RevlogDraw(area) ==
    /\ crashed = ""
    /\ current_size' = <<SatSub(area[1], 2), SatSub(area[2], 2)>>
    /\ UNCHANGED <<selection, selection_max, items, first_open_done, scroll_speed>>
    /\ UNCHANGED <<appVars, cycleVars, crashed, repoVars, logVars>>
    /\ UNCHANGED <<inputVars, stashVars>>

InitRevlog == InitWith(0..RevlogMaxCommits)

RevlogSpeedCap == SpeedAfterRun(RevlogMaxRapid)

NextRevlog ==
    \/ RevlogShow
    \/ RevlogHide
    \/ \E ev \in InputEvents : RevlogEvent(ev, RevlogSpeedCap)
    \/ RevlogNotified
    \/ \E area \in AreaSizes(RevlogMaxArea) : RevlogDraw(area)
    \/ WalkStep
    \/ WalkFinish

SpecRevlog == InitRevlog /\ [][NextRevlog]_vars

(* the Revlog alone, with calls of AsyncLog that return Err: fetch, count and *)
(* get_slice return a Result, which Revlog unwraps                           *)

\* the AsyncLog calls of Revlog::update that can return Err
UpdateCalls == {"count", "get_slice"}

\* Revlog::update for selection sel, when `call` returns Err: count is
\* unwrapped before selection_max is assigned, get_slice after it, in
\* fetch_commits, which runs when the batch needs data
RevlogUpdateFails(call, sel) ==
    /\ call = "get_slice" => needs_data(items, sel, UpdatedSelectionMax)
    /\ selection_max' = IF call = "count" THEN selection_max ELSE UpdatedSelectionMax
    /\ items' = items
    /\ crashed' = "unwrap"

\* Revlog::show, when AsyncLog::fetch returns Err
RevlogShowFails ==
    /\ crashed = ""
    /\ ~first_open_done
    /\ visible' = [visible EXCEPT !["revlog"] = TRUE]
    /\ first_open_done' = TRUE
    /\ crashed' = "unwrap"
    /\ UNCHANGED <<selection, selection_max, items, scroll_speed, current_size>>
    /\ UNCHANGED <<do_quit, tab, queue, current_commands, help_cmds, cycleVars, repoVars, logVars>>
    /\ UNCHANGED <<inputVars, stashVars>>

\* Revlog::update on a Log notification, when `call` returns Err
RevlogNotifiedFails(call) ==
    /\ crashed = ""
    /\ chan > 0
    /\ chan' = chan - 1
    /\ RevlogUpdateFails(call, selection)
    /\ UNCHANGED <<selection, first_open_done, scroll_speed, current_size>>
    /\ UNCHANGED <<count, pending, total>>
    /\ UNCHANGED <<appVars, cycleVars, repoVars>>
    /\ UNCHANGED <<inputVars, stashVars>>

\* Component::event on a move key, when `call` returns Err in the update that
\* ends Revlog::move_selection
RevlogEventFails(ev, call) ==
    /\ crashed = ""
    /\ RevlogConsumes(ev)
    /\ \E rapid \in BOOLEAN :
          /\ rapid => RapidAllowed(SCROLL_SPEED_START)
          /\ scroll_speed' = update_scroll_speed(scroll_speed, rapid)
    /\ selection' =
         ClampSelection(
             MovedSelection(ScrollOf(ev), selection, selection_max, speed_int(scroll_speed')),
             selection_max)
    /\ RevlogUpdateFails(call, selection')
    /\ UNCHANGED <<first_open_done, current_size>>
    /\ UNCHANGED <<appVars, cycleVars, repoVars, logVars>>
    /\ UNCHANGED <<inputVars, stashVars>>

\* a call of AsyncLog returns Err to the Revlog
LogCallFails ==
    \/ RevlogShowFails
    \/ \E call \in UpdateCalls : RevlogNotifiedFails(call)
    \/ \E ev \in MoveKeys, call \in UpdateCalls : RevlogEventFails(ev, call)

NextLogErr ==
    \/ RevlogShow
    \/ RevlogHide
    \/ \E ev \in InputEvents : RevlogEvent(ev, SCROLL_SPEED_START)
    \/ RevlogNotified
    \/ \E area \in AreaSizes(RevlogMaxArea) : RevlogDraw(area)
    \/ WalkStep
    \/ WalkFinish
    \/ RevlogShowFails
    \/ \E call \in UpdateCalls : RevlogNotifiedFails(call)
    \/ \E ev \in MoveKeys, call \in UpdateCalls : RevlogEventFails(ev, call)

SpecLogErr == InitRevlog /\ [][NextLogErr]_vars

(* the Revlog alone on a history of at least one commit, with the worker     *)
(* thread running whenever it can and the event loop taking every           *)
(* notification the channel holds                                           *)
InitLive == InitWith(1..RevlogMaxCommits)

NextLive ==
    \/ RevlogShow
    \/ RevlogHide
    \/ \E ev \in InputEvents : RevlogEvent(ev, SCROLL_SPEED_START)
    \/ RevlogNotified
    \/ WalkStep
    \/ WalkFinish

SpecLive ==
    /\ InitLive
    /\ [][NextLive]_vars
    /\ WF_vars(WalkStep)
    /\ WF_vars(WalkFinish)
    /\ WF_vars(RevlogNotified)

(* the Revlog tab open on a history of ScrollCommits commits, after the walk *)
(* has finished and Revlog::update has handled its last notification        *)
InitScroll ==
    /\ do_quit = FALSE
    /\ tab = 1
    /\ visible = [c \in ComponentSet |-> c = "revlog"]
    /\ queue = <<>>
    /\ current_commands = <<>>
    /\ help_cmds = <<>>
    /\ pc = "idle"
    /\ flags = {}
    /\ ran = <<>>
    /\ offered = <<>>
    /\ drain_start = NoSnapshot
    /\ crashed = ""
    /\ workdir = {}
    /\ selection = 0
    /\ selection_max = ScrollCommits - 1
    /\ items = [index_offset |-> 0, items |-> [i \in 1..ScrollCommits |-> i - 1]]
    /\ first_open_done = TRUE
    /\ scroll_speed = 0
    /\ current_size = <<0, 0>>
    /\ count = ScrollCommits
    /\ pending = FALSE
    /\ chan = 0
    /\ total = ScrollCommits
    /\ InitInput /\ InitStash

NextScroll ==
    \/ \E ev \in InputEvents : RevlogEvent(ev, RevlogSpeedCap)
    \/ \E area \in AreaSizes(RevlogMaxArea) : RevlogDraw(area)

SpecScroll == InitScroll /\ [][NextScroll]_vars

(* the Revlog tab open on a history longer than one window, after the walk  *)
(* has finished and Revlog::update has handled its last notification; every *)
(* move comes after a pause and every metadata lookup succeeds              *)
InitWindow ==
    /\ do_quit = FALSE
    /\ tab = 1
    /\ visible = [c \in ComponentSet |-> c = "revlog"]
    /\ queue = <<>>
    /\ current_commands = <<>>
    /\ help_cmds = <<>>
    /\ pc = "idle"
    /\ flags = {}
    /\ ran = <<>>
    /\ offered = <<>>
    /\ drain_start = NoSnapshot
    /\ crashed = ""
    /\ workdir = {}
    /\ selection = 0
    /\ selection_max = WindowCommits - 1
    /\ items = [index_offset |-> 0,
                items |-> [i \in 1..Min(WindowCommits, SLICE_SIZE) |-> i - 1]]
    /\ first_open_done = TRUE
    /\ scroll_speed = 0
    /\ current_size = <<0, 0>>
    /\ count = WindowCommits
    /\ pending = FALSE
    /\ chan = 0
    /\ total = WindowCommits
    /\ InitInput /\ InitStash

WindowKeys == {"MOVE_UP", "MOVE_DOWN", "HOME", "END"}

\* Component::event on a move key
WindowEvent(ev) ==
    /\ crashed = ""
    /\ RevlogConsumes(ev)
    /\ move_selection(ScrollOf(ev), FALSE, TRUE)
    /\ UNCHANGED <<appVars, cycleVars, crashed, repoVars, logVars>>
    /\ UNCHANGED <<inputVars, stashVars>>

NextWindow == \E ev \in WindowKeys : WindowEvent(ev)

SpecWindow == InitWindow /\ [][NextWindow]_vars

(* ------------------------------ sync::stash ---------------------------- *)
(* asyncgit/src/sync/stash.rs on a repository of git2, which is not part   *)
(* of the sources: stash_save stores the changes the flags select under    *)
(* the message "On <branch>: <message>" and cleans the working tree, and   *)
(* fails when there is nothing to stash; stash_foreach hands the messages  *)
(* to its callback, newest first, for as long as the callback returns true *)

Files == {"foo.txt", "bar.txt"}

Messages == {"", "foo", "stashname"}

\* what a call of this module returned
Returned(call, ok, list) == [call |-> call, ok |-> ok, list |-> list]

\* git2: the changes of the working tree that stash_save stores
Stashable(options) == IF "INCLUDE_UNTRACKED" \in options THEN untracked ELSE {}

\* git2: the message of the stash commit
StashMessage(branch, message) == "On " \o branch \o ": " \o message

\* git2: stash_foreach, for a callback that returns `continue`
stash_foreach(continue) ==
    IF continue THEN stash_list ELSE SubSeq(stash_list, 1, Min(1, Len(stash_list)))

\* mutation of StashOptions: the default flags
StashOptionsDefault == {}

\* let options = StashFlags::INCLUDE_UNTRACKED
StashOptions == {"INCLUDE_UNTRACKED"}

\* sync::tests::get_statuses: changed and conflicted files
get_statuses(files) == <<Cardinality(files), 0>>

\* File::create in the working tree
CreateFile(f) ==
    /\ f \notin untracked
    /\ untracked' = untracked \cup {f}
    /\ UNCHANGED <<stash_list, res>>
    /\ UNCHANGED <<coreVars, inputVars>>

\* sync::stash::stash
Stash(message) ==
    /\ Len(stash_list) < MaxStashes
    /\ IF Stashable(StashOptions) = {}
       THEN /\ res' = Returned("stash", FALSE, <<>>)
            /\ UNCHANGED <<untracked, stash_list>>
       ELSE /\ res' = Returned("stash", TRUE, <<>>)
            /\ stash_list' = <<StashMessage("master", message)>> \o stash_list
            /\ untracked' = untracked \ Stashable(StashOptions)
    /\ UNCHANGED <<coreVars, inputVars>>

\* sync::stash::get_stashes
GetStashes ==
    /\ res' = Returned("get_stashes", TRUE, stash_foreach(TRUE))
    /\ UNCHANGED <<untracked, stash_list>>
    /\ UNCHANGED <<coreVars, inputVars>>

NextStash ==
    \/ \E f \in Files : CreateFile(f)
    \/ \E message \in Messages : Stash(message)
    \/ GetStashes

SpecStash == Init /\ [][NextStash]_vars

(* -------------------------- TextInputComponent ------------------------- *)
(* components/textinput.rs.  A String is the sequence of its UTF-8 bytes,  *)
(* written in hexadecimal; positions are byte offsets, as in the code.     *)

\* the characters of the model: a, the newline, the space, a character of two
\* bytes (U+00E9) and NEWLINE_GLPYH (U+21B5, three bytes)
Utf8(c) ==
    CASE c = "a" -> <<"61">>
      [] c = "LF" -> <<"0A">>
      [] c = "SP" -> <<"20">>
      [] c = "E_ACUTE" -> <<"C3", "A9">>
      [] c = "NEWLINE_GLPYH" -> <<"E2", "86", "B5">>

\* the characters of the texts set_text is given, and those typed
TextChars == {"a", "LF", "E_ACUTE"}
TypedChars == {"a", "E_ACUTE"}

\* the String of a sequence of characters
RECURSIVE Encode(_)
Encode(cs) == IF cs = <<>> THEN <<>> ELSE Utf8(Head(cs)) \o Encode(Tail(cs))

Texts == {Encode(cs) : cs \in SeqsUpTo(TextChars, MaxText)}

\* a byte of the form 10xxxxxx
IsContinuation(b) == b \in {"A9", "86", "B5"}

\* what a String operation that panics leaves in place of its result
StrPanic == <<"panic">>

\* str::is_char_boundary
is_char_boundary(s, index) ==
    \/ index = 0
    \/ index = Len(s)
    \/ index < Len(s) /\ ~IsContinuation(s[index + 1])

\* &s[from..to]: panics off a character boundary or out of range
Slice(s, from, to) ==
    IF from <= to /\ to <= Len(s) /\ is_char_boundary(s, from) /\ is_char_boundary(s, to)
    THEN SubSeq(s, from + 1, to)
    ELSE StrPanic

\* the while loop of next_char_position
RECURSIVE NextBoundary(_, _)
NextBoundary(s, index) ==
    IF index < Len(s) /\ ~is_char_boundary(s, index)
    THEN NextBoundary(s, index + 1)
    ELSE index

\* TextInputComponent::next_char_position
next_char_position(s, cursor) ==
    IF cursor >= Len(s)
    THEN [some |-> FALSE, pos |-> 0]
    ELSE [some |-> TRUE, pos |-> NextBoundary(s, cursor + 1)]

\* mutation of incr_cursor: one byte to the right
incr_cursor_byte(s, cursor) == IF cursor >= Len(s) THEN cursor ELSE cursor + 1

\* TextInputComponent::incr_cursor
incr_cursor(s, cursor) ==
    IF next_char_position(s, cursor).some THEN next_char_position(s, cursor).pos ELSE cursor

\* the while loop of decr_cursor
RECURSIVE PrevBoundary(_, _)
PrevBoundary(s, index) ==
    IF index > 0 /\ ~is_char_boundary(s, index)
    THEN PrevBoundary(s, index - 1)
    ELSE index

\* mutation of decr_cursor: one byte to the left
decr_cursor_byte(s, cursor) == SatSub(cursor, 1)

\* TextInputComponent::decr_cursor
decr_cursor(s, cursor) == PrevBoundary(s, SatSub(cursor, 1))

\* String::insert(idx, ch)
StringInsert(s, idx, ch) ==
    IF idx <= Len(s) /\ is_char_boundary(s, idx)
    THEN SubSeq(s, 1, idx) \o Utf8(ch) \o SubSeq(s, idx + 1, Len(s))
    ELSE StrPanic

\* String::remove(idx): the character that starts at idx
StringRemove(s, idx) ==
    IF idx < Len(s) /\ is_char_boundary(s, idx)
    THEN SubSeq(s, 1, idx) \o SubSeq(s, NextBoundary(s, idx + 1) + 1, Len(s))
    ELSE StrPanic

\* theme.text(enabled, false), with or without Modifier::UNDERLINED
Style(enabled, underlined) == [enabled |-> enabled, underlined |-> underlined]

\* Text::styled
Styled(text, style) == [text |-> text, style |-> style]

\* TextInputComponent::set_cursor_style
set_cursor_style(cursor) ==
    IF cursor = Utf8("LF") THEN Style(FALSE, TRUE) ELSE Style(TRUE, TRUE)

\* the character under the cursor, as get_draw_text and build_new_string
\* take it
CursorStr(s, cursor) ==
    IF next_char_position(s, cursor).some
    THEN Slice(s, cursor, next_char_position(s, cursor).pos)
    ELSE Utf8("SP")

\* s1 followed by s2, a panic in either being a panic
Concat(s1, s2) == IF s1 = StrPanic \/ s2 = StrPanic THEN StrPanic ELSE s1 \o s2

\* TextInputComponent::build_new_string
build_new_string(s, cursor) ==
    LET n == next_char_position(s, cursor)
        before == IF cursor > 0 THEN Slice(s, 0, cursor) ELSE <<>>
        c == CursorStr(s, cursor)
        shown == IF c = Utf8("LF") THEN Utf8("NEWLINE_GLPYH") ELSE c
        after == IF n.some /\ n.pos < Len(s) THEN Slice(s, n.pos, Len(s)) ELSE <<>>
    IN  Concat(Concat(before, shown), after)

\* what get_draw_text leaves when one of its slices panics
DrawPanic == <<Styled(StrPanic, Style(FALSE, FALSE))>>

\* TextInputComponent::get_draw_text
get_draw_text(m, cursor) ==
    LET style == Style(TRUE, FALSE)
        s == build_new_string(m, cursor)
        n == next_char_position(m, cursor)
        before == IF cursor > 0 THEN <<Styled(Slice(s, 0, cursor), style)>> ELSE <<>>
        cursor_str == CursorStr(m, cursor)
        after == IF n.some /\ n.pos < Len(m)
                 THEN <<Styled(Slice(s, n.pos, Len(s)), style)>>
                 ELSE <<>>
        all == before \o <<Styled(cursor_str, set_cursor_style(cursor_str))>> \o after
    IN  IF s = StrPanic \/ \E i \in 1..Len(all) : all[i].text = StrPanic
        THEN DrawPanic
        ELSE all

\* the keys of Component::event: code, the character of KeyCode::Char, and
\* whether KeyModifiers::CONTROL is held
Key(code, c, ctrl) == [code |-> code, c |-> c, ctrl |-> ctrl]

InputKeys ==
    {Key("Char", c, ctrl) : c \in TypedChars, ctrl \in BOOLEAN}
    \cup {Key(code, "a", FALSE) :
             code \in {"exit_popup", "Delete", "Backspace", "Left", "Right", "Home", "End", "Tab"}}

\* TextInputComponent::set_text
SetText(t) ==
    /\ crashed = ""
    /\ msg' = t
    /\ cursor_position' = 0
    /\ txt' = <<>>
    /\ UNCHANGED input_visible
    /\ UNCHANGED <<coreVars, stashVars>>

\* TextInputComponent::clear
InputClear ==
    /\ crashed = ""
    /\ msg' = <<>>
    /\ cursor_position' = 0
    /\ txt' = <<>>
    /\ UNCHANGED input_visible
    /\ UNCHANGED <<coreVars, stashVars>>

\* Component::show
InputShow ==
    /\ crashed = ""
    /\ input_visible' = TRUE
    /\ txt' = <<>>
    /\ UNCHANGED <<msg, cursor_position>>
    /\ UNCHANGED <<coreVars, stashVars>>

\* the text and the cursor after the match of Component::event on key e
EditedText(e) ==
    CASE e.code = "Char" -> StringInsert(msg, cursor_position, e.c)
      [] e.code = "Delete" ->
            IF cursor_position < Len(msg) THEN StringRemove(msg, cursor_position) ELSE msg
      [] e.code = "Backspace" ->
            IF cursor_position > 0
            THEN StringRemove(msg, decr_cursor(msg, cursor_position))
            ELSE msg
      [] OTHER -> msg

MovedCursor(e) ==
    CASE e.code = "Char" -> incr_cursor(EditedText(e), cursor_position)
      [] e.code = "Backspace" ->
            IF cursor_position > 0 THEN decr_cursor(msg, cursor_position) ELSE cursor_position
      [] e.code = "Left" -> decr_cursor(msg, cursor_position)
      [] e.code = "Right" -> incr_cursor(msg, cursor_position)
      [] e.code = "Home" -> 0
      [] e.code = "End" -> Len(msg)
      [] OTHER -> cursor_position

\* the keys the match of Component::event has an arm for
InputHandles(e) ==
    \/ e.code = "Char" /\ ~e.ctrl
    \/ e.code \in {"Delete", "Backspace", "Left", "Right", "Home", "End"}

\* Component::event returns Ok(true)
InputConsumes(e) == input_visible /\ (e.code = "exit_popup" \/ InputHandles(e))

\* Component::event; typing stops at MaxTyped bytes
InputEvent(e) ==
    /\ crashed = ""
    /\ e.code = "Char" => Len(msg) < MaxTyped
    /\ IF input_visible /\ e.code = "exit_popup"
       THEN /\ input_visible' = FALSE
            /\ UNCHANGED <<msg, cursor_position, crashed>>
       ELSE IF input_visible /\ InputHandles(e)
       THEN /\ input_visible' = input_visible
            /\ IF EditedText(e) = StrPanic
               THEN crashed' = "char boundary" /\ UNCHANGED <<msg, cursor_position>>
               ELSE /\ crashed' = crashed
                    /\ msg' = EditedText(e)
                    /\ cursor_position' = MovedCursor(e)
       ELSE UNCHANGED <<msg, cursor_position, input_visible, crashed>>
    /\ txt' = <<>>
    /\ UNCHANGED <<appVars, cycleVars, repoVars, revlogVars, logVars, stashVars>>

\* DrawableComponent::draw: the text it hands to the paragraph, which is
\* default_msg (here empty) when msg is empty
InputDraw ==
    /\ crashed = ""
    /\ input_visible
    /\ IF msg = <<>>
       THEN txt' = <<Styled(<<>>, Style(FALSE, FALSE))>> /\ crashed' = crashed
       ELSE IF get_draw_text(msg, cursor_position) = DrawPanic
       THEN crashed' = "char boundary" /\ txt' = txt
       ELSE txt' = get_draw_text(msg, cursor_position) /\ crashed' = crashed
    /\ UNCHANGED <<msg, cursor_position, input_visible>>
    /\ UNCHANGED <<appVars, cycleVars, repoVars, revlogVars, logVars, stashVars>>

NextInput ==
    \/ \E t \in Texts : SetText(t)
    \/ InputClear
    \/ InputShow
    \/ \E e \in InputKeys : InputEvent(e)
    \/ InputDraw

\* App::new, which builds the components, on a clean working directory
InitText == InitPairs /\ workdir = {}

SpecInput == InitText /\ [][NextInput]_vars

(* ------------------------------ claims --------------------------------- *)

\* the positions of call n in ran
RanAt(n) == {i \in DOMAIN ran : ran[i] = n}

RefreshNames == {"update", "update_diff", "update_commands"}

\* C1: when a cycle of App::event that is not the quit cycle ends, the queue
\* is empty, every event queued in the cycle has been processed, and none of
\* update, update_diff and update_commands ran before the last of them
C1_QueueDrainedBeforeRefresh ==
    pc = "done" =>
        /\ queue = <<>>
        /\ Cardinality(RanAt("process")) = drain_start.queued
        /\ \A i \in RanAt("process") : \A n \in RefreshNames : \A j \in RanAt(n) : i < j

\* a cycle with two queued events has ended and update ran in it
C1_Witness ==
    /\ pc = "done"
    /\ drain_start.queued = 2
    /\ RanAt("update") # {}

\* C2, as the specification states it: while the queue is drained, an event
\* still queued meets the popups and the working directory as they were when
\* the drain started; the effects of the events processed before it are not
\* there yet
C2_SiblingEffectsDeferred ==
    (pc = "drain" /\ queue # <<>>) =>
        /\ visible = drain_start.visible
        /\ workdir = drain_start.workdir

\* C2, amended: the queue is processed front first, and the effect of an
\* event (the popup it opens, the path it resets) is there as soon as the
\* event is processed, before the next queued event is; only the refreshes
\* wait for the end of the drain: the command listings stay as they are
C2_EffectsAppliedWhenProcessed ==
    [][(pc = "drain" /\ queue # <<>> /\ queue' # queue /\ crashed' = "") =>
          LET e == Head(queue)
          IN  /\ queue' = Tail(queue)
              /\ e.type = "ConfirmResetItem" => visible'["reset"]
              /\ e.type = "ShowMsg" => visible'["msg"]
              /\ e.type = "OpenCommit" => visible'["commit"]
              /\ (e.type = "ResetItem" /\ "ALL" \in flags' /\ "ALL" \notin flags)
                    => e.path \notin workdir'
              /\ current_commands' = current_commands
              /\ help_cmds' = help_cmds]_vars

\* an event is still queued and the popup the event before it opened is open
C2_Witness ==
    /\ pc = "drain"
    /\ queue # <<>>
    /\ Len(ran) = 1
    /\ visible["commit"]
    /\ ~drain_start.visible["commit"]

\* C3, as the specification states it: processing a reset or a hunk event
\* never ends the program, and unless it adds ALL to the flags (the sync call
\* failed, or did nothing) it leaves the working directory and the popups as
\* they are
C3_FailedEffectIsSilent ==
    [][(pc = "drain" /\ queue # <<>> /\ queue' # queue
            /\ Head(queue).type \in {"ResetItem", "AddHunk"}) =>
          /\ crashed' = ""
          /\ "ALL" \notin flags' => (workdir' = workdir /\ visible' = visible)]_vars

C5_RefreshesFollowFlags ==
    pc = "done" =>
        /\ Cardinality(RanAt("update")) = (IF "ALL" \in flags THEN 1 ELSE 0)
        /\ Cardinality(RanAt("update_diff")) = (IF "DIFF" \in flags THEN 1 ELSE 0)
        /\ Cardinality(RanAt("update_commands")) = (IF "COMMANDS" \in flags THEN 1 ELSE 0)
        /\ \A i \in RanAt("update") : \A j \in RanAt("update_diff") \cup RanAt("update_commands") : i < j
        /\ \A i \in RanAt("update_diff") : \A j \in RanAt("update_commands") : i < j

\* a cycle has ended whose flags hold ALL and COMMANDS but not DIFF: update and
\* update_commands ran, update_diff did not
C5_Witness ==
    /\ pc = "done"
    /\ flags = {"ALL", "COMMANDS"}
    /\ ran = <<"process", "clear", "update", "update_commands">>

\* the names of the commands of a listing, in its order
CommandNames(listing) == [i \in DOMAIN listing |-> listing[i].name]

\* C6: in the listings App::update_commands has just built, the one with
\* force_all holds the commands of every component in the component order; the
\* one without holds those of the components up to the first that returns
\* Blocking and of none after it; both end with the two commands of the App
C6_BlockingCutsListing ==
    (pc = "done" /\ "COMMANDS" \in flags) =>
        LET n == Len(Components)
            blocking == {i \in 1..n : ReturnsBlocking(Components[i], visible)}
            last == IF blocking = {} THEN n
                    ELSE CHOOSE i \in blocking : \A j \in blocking : i <= j
            own == <<"TOGGLE_TABS", "QUIT">>
        IN  /\ CommandNames(help_cmds) = Components \o own
            /\ CommandNames(current_commands) = SubSeq(Components, 1, last) \o own

\* the listings were built with the commit popup open, the first to block:
\* three components in the listing without force_all, all seven in the other
C6_Witness ==
    /\ pc = "done"
    /\ "COMMANDS" \in flags
    /\ visible["commit"] /\ ~visible["msg"] /\ ~visible["reset"]
    /\ Len(current_commands) = 5
    /\ Len(help_cmds) = 9

\* C7: in a cycle the components offered the input are msg, reset, commit,
\* help, revlog, status_tab, stashing_tab in this order, up to the one that
\* took it and none after it; if one took it the flags hold COMMANDS and the
\* tab and the tabs' visibility are as before the input
C7_DispatchOrder ==
    pc \in {"drain", "done"} =>
        LET order == <<"msg", "reset", "commit", "help", "revlog", "status_tab", "stashing_tab">>
            k == drain_start.consumer
        IN  /\ offered = SubSeq(order, 1, IF k = 0 THEN 7 ELSE k)
            /\ k # 0 =>
                  /\ "COMMANDS" \in flags
                  /\ tab = drain_start.tab
                  /\ \A i \in 1..3 : visible[Tabs[i]] <=> (i - 1 = drain_start.tab)

\* the commit popup took an input that msg and reset had declined, and the
\* cycle has ended
C7_Witness ==
    /\ pc = "done"
    /\ drain_start.consumer = 3
    /\ offered = <<"msg", "reset", "commit">>
    /\ RanAt("update_commands") # {}

\* C8: tab is 0, 1 or 2 and App::draw never meets an unknown tab; in a cycle
\* whose input no component took, if it was the tab-switch key (the flags hold
\* COMMANDS) tab is the old tab plus one modulo 3 and of the three tabs exactly
\* the one with this index is visible, and otherwise tab is the old tab
C8_TabRotates ==
    /\ tab \in {0, 1, 2}
    /\ crashed # "unknown tab"
    /\ (pc \in {"drain", "done"} /\ drain_start.consumer = 0) =>
          IF "COMMANDS" \in flags
          THEN /\ tab = (drain_start.tab + 1) % 3
               /\ \A i \in 1..3 : visible[Tabs[i]] <=> (i - 1 = tab)
          ELSE tab = drain_start.tab

\* a switch from the last tab has wrapped around to the first
C8_Witness ==
    /\ pc = "done"
    /\ drain_start.consumer = 0
    /\ "COMMANDS" \in flags
    /\ drain_start.tab = 2
    /\ tab = 0
    /\ visible["status_tab"] /\ ~visible["revlog"] /\ ~visible["stashing_tab"]

\* C9: the selection is never below 0 nor above selection_max, and a step in
\* which Revlog::update runs (a Log notification is handled, or a visible
\* Revlog handles a move key) leaves selection_max at count - 1, or at 0 if
\* count is 0
C9_SelectionInRange ==
    /\ [](0 <= selection /\ selection <= selection_max)
    /\ [][(\/ chan' = chan - 1
           \/ visible["revlog"] /\ \E ev \in MoveKeys : RevlogEvent(ev, RevlogSpeedCap))
             => selection_max' = (IF count > 0 THEN count - 1 ELSE 0)]_vars

\* the walk is over, every notification is handled, the selection has moved to
\* the last commit and the Revlog is hidden again
C9_Witness ==
    /\ ~pending
    /\ chan = 0
    /\ count = 2
    /\ selection_max = 1
    /\ selection = 1
    /\ scroll_speed > 0
    /\ ~visible["revlog"]

\* C10: a visible Revlog that handles the Down key with the selection at
\* selection_max, or the Up key with the selection at 0, leaves the selection
\* where it is, whatever the scroll speed
C10_EdgeMovesStay ==
    [][/\ (visible["revlog"] /\ selection = selection_max
              /\ RevlogEvent("MOVE_DOWN", RevlogSpeedCap)) => selection' = selection
       /\ (visible["revlog"] /\ selection = 0
              /\ RevlogEvent("MOVE_UP", RevlogSpeedCap)) => selection' = selection]_vars

\* the selection is at the last of two commits after a run of moves that took
\* the scroll speed to its maximum, a step of 10
C10_Witness ==
    /\ visible["revlog"]
    /\ selection_max = 1
    /\ selection = selection_max
    /\ scroll_speed = SCROLL_SPEED_MAX
    /\ speed_int(scroll_speed) = 10

\* a visible Revlog handles a move key: Revlog::move_selection runs
RevlogMoves(cap) == visible["revlog"] /\ \E ev \in MoveKeys : RevlogEvent(ev, cap)

\* C11, as the specification states it: when a visible Revlog has handled the
\* Home key the selection is 0, and when it has handled the End key the
\* selection is the selection_max it then holds
C11_HomeEndLandExactly ==
    [][/\ (visible["revlog"] /\ RevlogEvent("HOME", RevlogSpeedCap)) => selection' = 0
       /\ (visible["revlog"] /\ RevlogEvent("END", RevlogSpeedCap))
             => selection' = selection_max']_vars

\* C12, as the specification states it: after a move the scroll speed is at
\* least the start speed 0.1 and at most the maximum speed 10
C12_SpeedInRange ==
    [][RevlogMoves(RevlogSpeedCap) =>
          (SCROLL_SPEED_START <= scroll_speed' /\ scroll_speed' <= SCROLL_SPEED_MAX)]_vars

\* C13, as the specification states it: a move either comes after a pause and
\* sets the speed to the start speed 0.1, or comes within the threshold and
\* sets it to 1.05 times the speed before, at most 10, which is more than the
\* speed before unless that was 10 already
C13_SpeedGrowsOrResets ==
    [][RevlogMoves(RevlogSpeedCap) =>
          \/ scroll_speed' = SCROLL_SPEED_START
          \/ /\ scroll_speed' * 100 <= scroll_speed * 105
             /\ scroll_speed' <= SCROLL_SPEED_MAX
             /\ scroll_speed' > scroll_speed \/ scroll_speed = SCROLL_SPEED_MAX]_vars

\* the rows an Up or Down moves by: the whole part of the speed, at least 1
C14_Step == Max(scroll_speed' \div SPEED_ONE, 1)

\* C14: an Up or a Down moves the selection by max(1, floor(speed)) rows, a
\* number in 1..10, taken from the speed as this move has set it; a PageUp or a
\* PageDown moves it by the height of the view less one, saturating at 0; a
\* Home or an End jumps to 0 or to selection_max; none of the last four
\* depends on the speed. Each result is then clamped to selection_max.
C14_StepSizes ==
    [][\A ev \in MoveKeys :
          RevlogEvent(ev, RevlogSpeedCap) =>
             /\ C14_Step \in 1..10
             /\ selection' =
                   Min(CASE ev = "MOVE_UP" -> Max(selection - C14_Step, 0)
                         [] ev = "MOVE_DOWN" -> selection + C14_Step
                         [] ev = "PAGE_UP" -> Max(selection - Max(current_size[2] - 1, 0), 0)
                         [] ev = "PAGE_DOWN" -> selection + Max(current_size[2] - 1, 0)
                         [] ev \in {"HOME", "SHIFT_UP"} -> 0
                         [] ev \in {"END", "SHIFT_DOWN"} -> selection_max,
                       selection_max)]_vars

\* a Down at full speed from the top has moved the selection by 10 rows
C14_Witness ==
    /\ visible["revlog"]
    /\ scroll_speed = SCROLL_SPEED_MAX
    /\ selection = 10
    /\ selection < selection_max

\* C15: when the batch does not serve a selection s below selection_max
\* (needs_data is true) and is replaced by one that holds s, needs_data is
\* false for s against the new batch.
C15_FetchedWindowServes ==
    [][(/\ items' # items
        /\ selection' < selection_max'
        /\ needs_data(items, selection', selection_max')
        /\ items'.index_offset <= selection'
        /\ selection' < items'.index_offset + Len(items'.items))
          => ~needs_data(items', selection', selection_max')]_vars

\* the window has slid forward on the way down and serves the selection
C15_Witness ==
    /\ items.index_offset = 500
    /\ selection = 1100
    /\ selection < selection_max
    /\ ~needs_data(items, selection, selection_max)

\* C16: a batch that fetch_commits has stored starts at
\* max(0, selection - SLICE_SIZE/2), holds at most SLICE_SIZE entries, holds
\* the commit of log index index_offset + i at place i, and is the whole slice
\* of the log from there: nothing of the previous batch is kept.
C16_BatchIsTheWindow ==
    [][items' # items =>
         /\ items'.index_offset = Max(0, selection' - SLICE_SIZE \div 2)
         /\ Len(items'.items) <= SLICE_SIZE
         /\ Len(items'.items) = Min(count', items'.index_offset + SLICE_SIZE) - items'.index_offset
         /\ \A i \in 1..Len(items'.items) :
               items'.items[i] = items'.index_offset + (i - 1)]_vars

\* End has fetched the last window of the log, cut short by the log's end
C16_Witness ==
    /\ selection = selection_max
    /\ items.index_offset = selection - SLICE_SIZE \div 2
    /\ items.index_offset > 0
    /\ Len(items.items) = count - items.index_offset

\* C17, as the specification states it: when fetch, count or get_slice of the
\* log engine reports an error, Revlog::show, Revlog::update and
\* Revlog::fetch_commits complete without aborting the process, and count and
\* selection_max keep their last good values.
C17_LogErrorsContained ==
    [][LogCallFails =>
          (crashed' = "" /\ count' = count /\ selection_max' = selection_max)]_vars

\* Revlog::update runs for selection sel, the batch needs data and
\* sync::get_commits_info returns Err
C18_LookupFails ==
    \/ /\ chan' = chan - 1
       /\ RevlogUpdate(FALSE)
       /\ needs_data(items, selection, selection_max')
    \/ /\ visible["revlog"]
       /\ \E ev \in MoveKeys, rapid \in BOOLEAN : move_selection(ScrollOf(ev), rapid, FALSE)
       /\ needs_data(items, selection', selection_max')

\* C18: when the lookup of the commits' metadata fails in fetch_commits, the
\* cached batch keeps its index_offset and its items, no NeedsUpdate flag is
\* raised and nothing is queued.
C18_FailedLookupKeepsBatch ==
    [][C18_LookupFails => (items' = items /\ flags' = flags /\ queue' = queue)]_vars

\* the update that saw the second commit could not fetch: the batch of the
\* first commit is still cached
C18_Witness ==
    /\ first_open_done
    /\ chan = 0
    /\ count = 2
    /\ selection_max = 1
    /\ items = set_items(0, <<0>>)

\* C19: the walk of the log is started once, by the first show of the Revlog
\* tab, and by nothing after it: a step starts a walk only when it shows the
\* Revlog for the first time, that first show does start one, and no step
\* discards the commits a walk has discovered.
C19_WalkStartedOnce ==
    [][/\ (~pending /\ pending') => (~first_open_done /\ visible'["revlog"])
       /\ (~first_open_done /\ first_open_done') => (~pending /\ pending' /\ visible'["revlog"])
       /\ first_open_done => (first_open_done' /\ count' >= count)
       /\ (~visible["revlog"] /\ visible'["revlog"]) => first_open_done']_vars

\* the Revlog tab has been shown again after its walk has ended and its
\* notifications were handled: no second walk is in flight
C19_Witness ==
    /\ pc = "done"
    /\ drain_start.consumer = 0
    /\ "COMMANDS" \in flags
    /\ drain_start.tab # tab
    /\ visible["revlog"]
    /\ first_open_done
    /\ ~pending
    /\ chan = 0
    /\ count = total
    /\ selection_max = SatSub(total, 1)

\* the walk has discovered every commit and ended, and every notification it
\* sent has been handled
C20_Handled == first_open_done /\ ~pending /\ count = total /\ chan = 0

\* selection_max is the index of the last commit and the Revlog reports no
\* pending work
C20_Settled == selection_max = total - 1 /\ ~pending

\* C20: with the worker and the event loop scheduled fairly, a walk that has
\* been started discovers all N >= 1 commits, ends and has its notifications
\* handled; and once that is so, selection_max is N - 1 and the Revlog
\* reports no pending work.
C20_WalkSettles == (pending ~> C20_Handled) /\ (C20_Handled ~> C20_Settled)

\* a walk over two commits has ended and been handled: selection_max is 1
C20_Witness ==
    /\ C20_Handled
    /\ total = 2
    /\ selection_max = 1

\* the effects of a turn of the drain are those of processing event e
C21_Processes(e) ==
    \E sel \in Selections : \E oc \in Outcomes(e, sel, workdir) :
       IF Panics(e, sel, oc)
       THEN crashed' = "unwrap"
       ELSE /\ crashed' = ""
            /\ flags' = flags \cup process_internal_event(e, oc)
            /\ visible' = PopupsAfter(e, visible)
            /\ workdir' = WorkdirAfter(e, sel, oc, workdir)

\* C21: the queue is first in, first out. A handler's events go to the back
\* of the queue; every turn of the drain processes the oldest queued event
\* and keeps the others in order, with what was pushed meanwhile behind
\* them; and the drain ends only when nothing is queued, so an event pushed
\* during the drain is processed in that drain, after all queued before it.
C21_QueueIsFifo ==
    [][/\ (pc = "idle" /\ pc' = "drain") =>
             \E enq \in SeqsUpTo(InternalEvents, PairEnqueue) : queue' = queue \o enq
       /\ (pc = "drain" /\ pc' = "drain") =>
             /\ queue # <<>>
             /\ C21_Processes(Head(queue))
             /\ \E enq \in SeqsUpTo(InternalEvents, FifoEnqueue) : queue' = Tail(queue) \o enq
       /\ (pc = "drain" /\ pc' = "done") => queue = <<>>]_vars

\* a drain that started with one event has made two turns and is over: the
\* event pushed during the first turn was processed in it
C21_Witness ==
    /\ pc = "done"
    /\ drain_start.queued = 1
    /\ Len(ran) >= 3
    /\ ran[1] = "process"
    /\ ran[2] = "process"
    /\ ran[3] = "clear"

\* C22: on the fresh repository get_stashes returns the empty sequence; a
\* stash with message m of a working tree that holds an untracked file
\* succeeds, leaves the status clean (0 changed, 0 conflicted) and, on the
\* fresh repository, makes get_stashes return the one entry "On master: "
\* followed by m; a stash with nothing to stash returns an error and leaves
\* the stash list as it was (empty on the fresh repository).
C22_StashEndToEnd ==
    [][/\ (GetStashes /\ stash_list = <<>>) => res'.list = <<>>
       /\ GetStashes => (res'.ok /\ res'.list = stash_list)
       /\ \A m \in Messages :
             /\ (Stash(m) /\ untracked # {}) =>
                   /\ res'.ok
                   /\ get_statuses(untracked') = <<0, 0>>
                   /\ stash_list = <<>> => stash_list' = <<"On master: " \o m>>
             /\ (Stash(m) /\ untracked = {}) =>
                   (~res'.ok /\ stash_list' = stash_list)]_vars

\* get_stashes has returned the one stash of foo.txt with message foo
C22_Witness ==
    /\ res = Returned("get_stashes", TRUE, <<"On master: foo">>)
    /\ untracked = {}

\* the byte offset at which the character after the one at the cursor starts
TextAfterCursor ==
    CHOOSE p \in (cursor_position + 1)..Len(msg) :
       /\ is_char_boundary(msg, p)
       /\ \A q \in (cursor_position + 1)..(p - 1) : ~is_char_boundary(msg, q)

\* the texts of the segments of a Vec<Text>, each with whether it is underlined
SegmentsOf(t) == [i \in 1..Len(t) |-> <<t[i].text, t[i].style.underlined>>]

\* the segments that are not underlined have the normal style
PlainSegmentsNormal(t) ==
    \A i \in 1..Len(t) : ~t[i].style.underlined => t[i].style = Style(TRUE, FALSE)

\* the text before the cursor, if the cursor is not at the start
C23_Before ==
    IF cursor_position > 0 THEN <<<<SubSeq(msg, 1, cursor_position), FALSE>>>> ELSE <<>>

\* the text after the character at the cursor, if any
C23_After ==
    IF cursor_position < Len(msg) /\ TextAfterCursor < Len(msg)
    THEN <<<<SubSeq(msg, TextAfterCursor + 1, Len(msg)), FALSE>>>>
    ELSE <<>>

\* C23, as the specification states it: get_draw_text yields the text before
\* the cursor in the normal style (if the cursor is not at the start), then
\* one underlined segment with the character under the cursor, or a space
\* when the cursor is at the end, then the text after that character (if
\* any); together the segments are msg, plus the space at the end.
C23_DrawTextSegments ==
    [][(InputDraw /\ msg # <<>>) =>
          /\ crashed' = ""
          /\ PlainSegmentsNormal(txt')
          /\ SegmentsOf(txt') =
                C23_Before
                \o <<<<IF cursor_position < Len(msg)
                       THEN SubSeq(msg, cursor_position + 1, TextAfterCursor)
                       ELSE Utf8("SP"), TRUE>>>>
                \o C23_After]_vars

\* the cursor is on a newline
C24_OnNewline == cursor_position < Len(msg) /\ msg[cursor_position + 1] = "0A"

\* C24, as the specification states it: with the cursor on a newline,
\* get_draw_text yields the text before the cursor (if any), the glyph
\* U+21B5 underlined, a segment with the newline itself and a segment with
\* the text after it (if any), and it does not panic.
C24_NewlineGlyph ==
    [][(InputDraw /\ C24_OnNewline) =>
          /\ crashed' = ""
          /\ SegmentsOf(txt') =
                C23_Before
                \o <<<<Utf8("NEWLINE_GLPYH"), TRUE>>, <<Utf8("LF"), FALSE>>>>
                \o C23_After]_vars

\* the character boundaries of msg
Boundaries == {c \in 0..Len(msg) : is_char_boundary(msg, c)}

\* C25: from a cursor on a character boundary before the end of the text,
\* incr_cursor and then decr_cursor come back to it; from one after the
\* start, decr_cursor and then incr_cursor come back to it; also across
\* characters of several bytes; and set_text leaves the cursor at 0.
C25_CursorRoundTrip ==
    /\ [](\A c \in Boundaries :
            /\ c < Len(msg) => decr_cursor(msg, incr_cursor(msg, c)) = c
            /\ c > 0 => incr_cursor(msg, decr_cursor(msg, c)) = c)
    /\ [][\A t \in Texts : SetText(t) => cursor_position' = 0]_vars

\* Right has taken the cursor over a character of two bytes
C25_Witness ==
    /\ msg = Encode(<<"E_ACUTE", "LF", "a">>)
    /\ cursor_position = 2
    /\ decr_cursor(msg, cursor_position) = 0

\* C26: after any sequence of set_text, clear and keys, the cursor is within
\* the text and on a character boundary, the insert and the remove of a key
\* do not panic, and while the component is not visible event returns false
\* and leaves the text and the cursor as they are.
C26_CursorOnBoundary ==
    /\ [](cursor_position \in Boundaries)
    /\ [][\A e \in InputKeys :
            InputEvent(e) =>
               /\ crashed' = ""
               /\ ~input_visible =>
                     (~InputConsumes(e) /\ msg' = msg /\ cursor_position' = cursor_position)]_vars

\* a character of two bytes has been typed in front of another character
C26_Witness ==
    /\ input_visible
    /\ msg = Encode(<<"a", "E_ACUTE", "a">>)
    /\ cursor_position = 3

\* the batch b holds the entry of commit sel, at place relative_selection
SelectionCached(b, sel) ==
    /\ relative_selection(b, sel) < Len(b.items)
    /\ b.items[relative_selection(b, sel) + 1] = sel

CommandsNow == SortByOrder(commands(visible, FALSE))

\* C28, as the specification states it: at the end of every input cycle
\* current_commands is the sorted commands(false) of the end-of-cycle state.
C28_CommandsCurrent ==
    pc = "done" => current_commands = CommandsNow

\* the cycle that is ending had a consumer, switched the tab or opened a
\* popup from the queue: the ways a cycle changes what is visible
C28_CycleMayChangeVisibility ==
    \/ drain_start.consumer # 0
    \/ drain_start.tab # tab
    \/ drain_start.visible # visible

\* C28, amended: a cycle that may change the visibility of a popup or tab
\* runs update_commands, after the drain, and ends with current_commands the
\* sorted commands(false) of the end-of-cycle state; and once update_commands
\* has run (until then the list is the empty one of App::new) every cycle
\* ends so.
C28_CommandsCurrentOnceListed ==
    pc = "done" =>
       /\ C28_CycleMayChangeVisibility =>
             /\ ran[Len(ran)] = "update_commands"
             /\ current_commands = CommandsNow
       /\ current_commands # <<>> => current_commands = CommandsNow

\* a cycle ends in which a queued OpenCommit opened the commit popup and
\* the listing shows it
C28_Witness ==
    /\ pc = "done"
    /\ visible["commit"] /\ ~drain_start.visible["commit"]
    /\ current_commands = CommandsNow

\* the place of the Revlog in the dispatch order
RevlogPlace == CHOOSE k \in 1..Len(Components) : Components[k] = "revlog"

\* a step of App::event that dispatches an input while the Revlog is hidden
C29_DispatchWhileHidden ==
    /\ \E ev \in AppInputs : Event(ev, SpeedCap, MaxEnqueue)
    /\ pc' = "drain"
    /\ ~visible["revlog"]

\* C29: the Revlog is visible exactly on tab 1, and an input dispatched while
\* it is hidden is not consumed by it and leaves its selection, selection_max,
\* scroll speed and cached batch as they were.
C29_HiddenRevlogIgnoresInput ==
    /\ [](visible["revlog"] <=> tab = 1)
    /\ [][C29_DispatchWhileHidden =>
            /\ drain_start'.consumer # RevlogPlace
            /\ <<selection, selection_max, scroll_speed, items>>' =
                  <<selection, selection_max, scroll_speed, items>>]_vars

\* the log was opened and has a cached batch, the last tab is shown, and an
\* input went past the hidden Revlog to a component behind it
C29_Witness ==
    /\ pc = "drain"
    /\ tab = 2 /\ ~visible["revlog"]
    /\ items.items # <<>>
    /\ drain_start.tab = tab
    /\ drain_start.consumer > RevlogPlace

\* App::event is called with the exit key
C30_ExitKey == AppEvent("EXIT", SpeedCap, MaxEnqueue)

\* C30: the exit key, popup or not, only sets do_quit: nothing is offered to
\* a component, nothing is drained or refreshed, the cycle ends at once; and
\* do_quit, once true, stays true through every later call.
C30_QuitIsFinal ==
    [][/\ C30_ExitKey =>
            /\ do_quit'
            /\ <<tab, visible, queue, current_commands, help_cmds>>' =
                  <<tab, visible, queue, current_commands, help_cmds>>
            /\ <<cycleVars, repoVars, revlogVars, logVars>>' =
                  <<cycleVars, repoVars, revlogVars, logVars>>
       /\ do_quit => do_quit']_vars

\* after the exit key, with a popup visible, a later input has been consumed
\* and its cycle is ending, is_quit() still true
C30_Witness ==
    /\ do_quit
    /\ any_popup_visible(visible)
    /\ pc = "done"
    /\ drain_start.consumer # 0

====
